---- MODULE Spec2Model ----
(***************************************************************************)
(* Verification model of the generated GraphQL query bindings              *)
(* (SessionDetailsQuery, ViewerContextRefetchQuery) and of the two-stage   *)
(* container build (backend.dockerfile) of kxehr/phoenix.                  *)
(*                                                                         *)
(* Four specifications share the module:                                   *)
(*   SpecModule   - evaluation of the two generated modules, statement by  *)
(*                  statement, their importers (readers) and the requests  *)
(*                  issued from the exported bindings;                     *)
(*   SpecScan     - a scan of params.text, token by token, that collects   *)
(*                  the field paths, fragment spreads, declared variables  *)
(*                  and binding sites of the query text;                   *)
(*   SpecResponse - processing of one response of SessionDetailsQuery:     *)
(*                  shape validation and projection through the fragment   *)
(*                  selection tree;                                        *)
(*   SpecBuild    - the build steps of backend.dockerfile in every order   *)
(*                  the stage dependencies permit.                         *)
(***************************************************************************)
EXTENDS Integers, Sequences, FiniteSets, TLC

VARIABLES
  \* module evaluation
  pc,         \* pc[m]: index of the next top-level statement of module m
  env,        \* env[m][v]: the var v of the module function of m
  node,       \* node[m]: the value of `const node` of module m
  exported,   \* exported[m]: `export default node` has run
  obs,        \* obs[r][m]: what importer r read from the default export of m
  requests,   \* requests issued from exported bindings
  \* scan of params.text
  scanMod, pos, ctx, def, stack, lastKey, paths, spreads, declared, bound,
  \* response processing
  response, phase, verdict, view,
  \* container build
  context,    \* the build context: the symbolic links under ./src
  pc1,        \* instructions of stage frontend-builder already run
  pc2,        \* instructions of stage backend-builder already run
  fs1,        \* file system of stage frontend-builder
  fs2         \* file system of stage backend-builder

modVars == <<pc, env, node, exported, obs, requests>>
scanVars == <<scanMod, pos, ctx, def, stack, lastKey, paths, spreads, declared, bound>>
respVars == <<response, phase, verdict, view>>
buildVars == <<context, pc1, pc2, fs1, fs2>>
vars == <<modVars, scanVars, respVars, buildVars>>

-----------------------------------------------------------------------------
(* Bounds *)

\* number of importers that read the default exports
NumReaders == 2
\* number of requests kept in the request log
MaxRequests == 2
\* number of distinct variable values a request may carry
NumVariableValues == 2
\* number of symbolic links of each kind the build context may hold under src/
MaxLinks == 1

-----------------------------------------------------------------------------
(* The shapes of the generated descriptors (relay-runtime ConcreteRequest) *)

\* JavaScript null
Null == "null"

\* a list-valued property of an object literal: a literal list, a reference
\* to a var of the module function (vN), or null
NoList == [ref |-> Null, items |-> <<>>]
Lit(items) == [ref |-> Null, items |-> items]
Var(v) == [ref |-> v, items |-> <<>>]

\* every descriptor object carries the same fields; the ones its kind does
\* not have are null
Blank ==
  [kind |-> Null, alias |-> Null, name |-> Null, args |-> NoList,
   concreteType |-> Null, plural |-> FALSE, selections |-> NoList,
   storageKey |-> Null, type |-> Null, abstractKey |-> Null,
   variableName |-> Null, value |-> Null, defaultValue |-> Null,
   argumentDefinitions |-> NoList, metadata |-> Null]

ScalarField(alias, name, args, storageKey) ==
  [Blank EXCEPT !.kind = "ScalarField", !.alias = alias, !.name = name,
                !.args = args, !.storageKey = storageKey]

LinkedField(alias, name, args, concreteType, plural, selections, storageKey) ==
  [Blank EXCEPT !.kind = "LinkedField", !.alias = alias, !.name = name,
                !.args = args, !.concreteType = concreteType,
                !.plural = plural, !.selections = selections,
                !.storageKey = storageKey]

InlineFragment(selections, type, abstractKey) ==
  [Blank EXCEPT !.kind = "InlineFragment", !.selections = selections,
                !.type = type, !.abstractKey = abstractKey]

TypeDiscriminator(abstractKey) ==
  [Blank EXCEPT !.kind = "TypeDiscriminator", !.abstractKey = abstractKey]

FragmentSpread(args, name) ==
  [Blank EXCEPT !.kind = "FragmentSpread", !.args = args, !.name = name]

LocalArgument(defaultValue, name) ==
  [Blank EXCEPT !.kind = "LocalArgument", !.defaultValue = defaultValue,
                !.name = name]

Variable(name, variableName) ==
  [Blank EXCEPT !.kind = "Variable", !.name = name,
                !.variableName = variableName]

Literal(name, value) ==
  [Blank EXCEPT !.kind = "Literal", !.name = name, !.value = value]

Fragment(argumentDefinitions, metadata, name, selections, type, abstractKey) ==
  [Blank EXCEPT !.kind = "Fragment",
                !.argumentDefinitions = argumentDefinitions,
                !.metadata = metadata, !.name = name,
                !.selections = selections, !.type = type,
                !.abstractKey = abstractKey]

Operation(argumentDefinitions, name, selections) ==
  [Blank EXCEPT !.kind = "Operation",
                !.argumentDefinitions = argumentDefinitions, !.name = name,
                !.selections = selections]

\* a use of a var of the module function as an element of a list: (vN)
Ref(v) == [Blank EXCEPT !.kind = "Ref", !.name = v]

\* the value of a var that has not been initialised yet (var hoisting)
Undefined ==
  [Blank EXCEPT !.kind = "undefined", !.args = <<>>, !.selections = <<>>,
                !.argumentDefinitions = <<>>]

-----------------------------------------------------------------------------
(* The two generated modules *)

\* a property of a declared response type: optional (name?:), nullable
\* (| null), its type, and the properties of an object or array element
Field(name, optional, nullable, t, fields) ==
  [name |-> name, optional |-> optional, nullable |-> nullable, t |-> t,
   fields |-> fields]

\* a mutant of SessionDetailsQuery_v0: a declared argument no field uses
SessionDetailsQuery_v0_unusedArgument ==
  Lit(<<
    LocalArgument(Null, "id"),
    LocalArgument(Null, "first")
  >>)

\* src/unnamed/part_000 lines 69-75: var v0
SessionDetailsQuery_v0 ==
  Lit(<<
    LocalArgument(Null, "id")
  >>)

\* src/unnamed/part_000 lines 76-82: var v1
SessionDetailsQuery_v1 ==
  Lit(<<
    Variable("id", "id")
  >>)

\* src/unnamed/part_000 lines 83-89: var v2 (an object; held as a one-element list)
SessionDetailsQuery_v2 ==
  Lit(<<
    ScalarField(Null, "id", NoList, Null)
  >>)

\* src/unnamed/part_000 lines 90-98: var v3
SessionDetailsQuery_v3 ==
  Lit(<<
    ScalarField(Null, "value", NoList, Null)
  >>)

\* src/unnamed/part_000 lines 109-140: the tokenUsage linked field of v4
SessionDetailsQuery_v4_tokenUsage ==
  LinkedField(Null, "tokenUsage", NoList, "TokenUsage", FALSE, Lit(<<
    ScalarField(Null, "total", NoList, Null),
    ScalarField(Null, "completion", NoList, Null),
    ScalarField(Null, "prompt", NoList, Null)
  >>), Null)

\* src/unnamed/part_000 lines 101-351: the selections of the inline fragment v4
SessionDetailsQuery_v4_selections ==
  Lit(<<
    ScalarField(Null, "numTraces", NoList, Null),
    SessionDetailsQuery_v4_tokenUsage,
    ScalarField(Null, "sessionId", NoList, Null),
    ScalarField("latencyP50", "traceLatencyMsQuantile", Lit(<<
      Literal("probability", "0.5")
    >>), "traceLatencyMsQuantile(probability:0.5)"),
    LinkedField(Null, "traces", NoList, "TraceConnection", FALSE, Lit(<<
      LinkedField(Null, "edges", NoList, "TraceEdge", TRUE, Lit(<<
        LinkedField("trace", "node", NoList, "Trace", FALSE, Lit(<<
          LinkedField(Null, "rootSpan", NoList, "Span", FALSE, Lit(<<
            Ref("v2"),
            ScalarField(Null, "attributes", NoList, Null),
            LinkedField(Null, "project", NoList, "Project", FALSE, Lit(<<
              Ref("v2")
            >>), Null),
            LinkedField(Null, "input", NoList, "SpanIOValue", FALSE, Var("v3"), Null),
            LinkedField(Null, "output", NoList, "SpanIOValue", FALSE, Var("v3"), Null),
            ScalarField(Null, "cumulativeTokenCountTotal", NoList, Null),
            ScalarField(Null, "cumulativeTokenCountCompletion", NoList, Null),
            ScalarField(Null, "cumulativeTokenCountPrompt", NoList, Null),
            ScalarField(Null, "latencyMs", NoList, Null),
            ScalarField(Null, "startTime", NoList, Null),
            LinkedField(Null, "spanAnnotations", NoList, "SpanAnnotation", TRUE, Lit(<<
              ScalarField(Null, "name", NoList, Null),
              ScalarField(Null, "label", NoList, Null),
              ScalarField(Null, "score", NoList, Null),
              ScalarField(Null, "explanation", NoList, Null),
              ScalarField(Null, "annotatorKind", NoList, Null)
            >>), Null),
            LinkedField(Null, "context", NoList, "SpanContext", FALSE, Lit(<<
              ScalarField(Null, "traceId", NoList, Null),
              ScalarField(Null, "spanId", NoList, Null)
            >>), Null)
          >>), Null)
        >>), Null)
      >>), Null)
    >>), Null)
  >>)

\* a mutant of SessionDetailsQuery_v4: the branch is conditioned on another
\* type
SessionDetailsQuery_v4_wrongType ==
  Lit(<<
    InlineFragment(SessionDetailsQuery_v4_selections, "Project", Null)
  >>)

\* src/unnamed/part_000 lines 99-354: var v4 (an object; held as a one-element list)
SessionDetailsQuery_v4 ==
  Lit(<<
    InlineFragment(SessionDetailsQuery_v4_selections, "ProjectSession", Null)
  >>)

\* src/unnamed/part_000 lines 356-377: the reader (fragment) selection tree
SessionDetailsQuery_fragment ==
  Fragment(Var("v0"), Null, "SessionDetailsQuery", Lit(<<
    LinkedField("session", "node", Var("v1"), Null, FALSE, Lit(<<
      Ref("v4")
    >>), Null)
  >>), "Query", Null)

\* a mutant of SessionDetailsQuery_operation: the id of the node is not
\* selected
SessionDetailsQuery_operation_noId ==
  Operation(Var("v0"), "SessionDetailsQuery", Lit(<<
    LinkedField("session", "node", Var("v1"), Null, FALSE, Lit(<<
      ScalarField(Null, "__typename", NoList, Null),
      Ref("v4"),
      TypeDiscriminator("__isNode")
    >>), Null)
  >>))

\* a mutant of SessionDetailsQuery_operation: the type name of the abstract
\* field is not selected
SessionDetailsQuery_operation_noTypename ==
  Operation(Var("v0"), "SessionDetailsQuery", Lit(<<
    LinkedField("session", "node", Var("v1"), Null, FALSE, Lit(<<
      Ref("v4"),
      TypeDiscriminator("__isNode"),
      Ref("v2")
    >>), Null)
  >>))

\* src/unnamed/part_000 lines 379-409: the normalization (operation) selection tree
SessionDetailsQuery_operation ==
  Operation(Var("v0"), "SessionDetailsQuery", Lit(<<
    LinkedField("session", "node", Var("v1"), Null, FALSE, Lit(<<
      ScalarField(Null, "__typename", NoList, Null),
      Ref("v4"),
      TypeDiscriminator("__isNode"),
      Ref("v2")
    >>), Null)
  >>))

\* src/unnamed/part_000 line 416: params.text as its sequence of GraphQL lexical tokens
SessionDetailsQuery_text ==
  <<
     "query", "SessionDetailsQuery", "(", "$", "id", ":", "GlobalID", "!",
     ")", "{", "session", ":", "node", "(", "id", ":",
     "$", "id", ")", "{", "__typename", "...", "on", "ProjectSession",
     "{", "numTraces", "tokenUsage", "{", "total", "completion", "prompt", "}",
     "sessionId", "latencyP50", ":", "traceLatencyMsQuantile", "(", "probability", ":", "0.5",
     ")", "traces", "{", "edges", "{", "trace", ":", "node",
     "{", "rootSpan", "{", "id", "attributes", "project", "{", "id",
     "}", "input", "{", "value", "}", "output", "{", "value",
     "}", "cumulativeTokenCountTotal", "cumulativeTokenCountCompletion", "cumulativeTokenCountPrompt", "latencyMs", "startTime", "spanAnnotations", "{",
     "name", "label", "score", "explanation", "annotatorKind", "}", "context", "{",
     "traceId", "spanId", "}", "}", "}", "}", "}", "}",
     "__isNode", ":", "__typename", "id", "}", "}"
  >>

\* a mutant of SessionDetailsQuery_cacheID: the identity of the other binding
SessionDetailsQuery_cacheID_collision ==
  "4c8790abe3ec8e077913422cb62c6b3f"

SessionDetailsQuery_cacheID ==
  "44f2433d50767bdcd9eb7c62d1f2cbb7"

SessionDetailsQuery_params ==
  [cacheID |-> SessionDetailsQuery_cacheID, id |-> Null, metadata |-> "{}", name |-> "SessionDetailsQuery",
   operationKind |-> "query", text |-> SessionDetailsQuery_text]

SessionDetailsQuery_hash ==
  "4cf37bedf6f6d9f7b373d019055a89f4"

\* a mutant of SessionDetailsQuery_vars: v4 is initialised before the vars
\* it uses
SessionDetailsQuery_vars_v4First ==
  << "v0", "v1", "v4", "v2", "v3" >>

\* the order in which the var statement initialises its variables
SessionDetailsQuery_vars ==
  << "v0", "v1", "v2", "v3", "v4" >>

\* src/app/src/contexts/__generated__/ViewerContextRefetchQuery.graphql.ts lines 23-29: var v0 (an object; held as a one-element list)
ViewerContextRefetchQuery_v0 ==
  Lit(<<
    ScalarField(Null, "id", NoList, Null)
  >>)

\* src/app/src/contexts/__generated__/ViewerContextRefetchQuery.graphql.ts lines 30-36: var v1 (an object; held as a one-element list)
ViewerContextRefetchQuery_v1 ==
  Lit(<<
    ScalarField(Null, "name", NoList, Null)
  >>)

\* src/app/src/contexts/__generated__/ViewerContextRefetchQuery.graphql.ts lines 38-52: the reader (fragment) selection tree
ViewerContextRefetchQuery_fragment ==
  Fragment(Lit(<<>>), Null, "ViewerContextRefetchQuery", Lit(<<
    FragmentSpread(NoList, "ViewerContext_viewer")
  >>), "Query", Null)

\* src/app/src/contexts/__generated__/ViewerContextRefetchQuery.graphql.ts lines 54-139: the normalization (operation) selection tree
ViewerContextRefetchQuery_operation ==
  Operation(Lit(<<>>), "ViewerContextRefetchQuery", Lit(<<
    LinkedField(Null, "viewer", NoList, "User", FALSE, Lit(<<
      Ref("v0"),
      ScalarField(Null, "username", NoList, Null),
      ScalarField(Null, "email", NoList, Null),
      ScalarField(Null, "profilePictureUrl", NoList, Null),
      LinkedField(Null, "role", NoList, "UserRole", FALSE, Lit(<<
        Ref("v1")
      >>), Null),
      LinkedField(Null, "apiKeys", NoList, "UserApiKey", TRUE, Lit(<<
        Ref("v0"),
        Ref("v1"),
        ScalarField(Null, "description", NoList, Null),
        ScalarField(Null, "createdAt", NoList, Null),
        ScalarField(Null, "expiresAt", NoList, Null)
      >>), Null)
    >>), Null)
  >>))

\* src/app/src/contexts/__generated__/ViewerContextRefetchQuery.graphql.ts line 146: params.text as its sequence of GraphQL lexical tokens
ViewerContextRefetchQuery_text ==
  <<
     "query", "ViewerContextRefetchQuery", "{", "...", "ViewerContext_viewer", "}", "fragment", "APIKeysTableFragment",
     "on", "User", "{", "apiKeys", "{", "id", "name", "description",
     "createdAt", "expiresAt", "}", "id", "}", "fragment", "ViewerContext_viewer", "on",
     "Query", "{", "viewer", "{", "id", "username", "email", "profilePictureUrl",
     "role", "{", "name", "}", "...", "APIKeysTableFragment", "}", "}"
  >>

ViewerContextRefetchQuery_cacheID ==
  "4c8790abe3ec8e077913422cb62c6b3f"

ViewerContextRefetchQuery_params ==
  [cacheID |-> ViewerContextRefetchQuery_cacheID, id |-> Null, metadata |-> "{}", name |-> "ViewerContextRefetchQuery",
   operationKind |-> "query", text |-> ViewerContextRefetchQuery_text]

ViewerContextRefetchQuery_hash ==
  "0fda3314d35e251b11f0ed180df72f44"

\* the order in which the var statement initialises its variables
ViewerContextRefetchQuery_vars ==
  << "v0", "v1" >>

\* a mutant of SessionDetailsQuery_data_tokenUsage: total is declared optional
SessionDetailsQuery_data_tokenUsage_optionalTotal ==
  Field("tokenUsage", TRUE, FALSE, "object", <<
    Field("completion", FALSE, FALSE, "number", <<>>),
    Field("prompt", FALSE, FALSE, "number", <<>>),
    Field("total", TRUE, FALSE, "number", <<>>)
  >>)

\* src/unnamed/part_000 lines 21-25: the declared type of session.tokenUsage
SessionDetailsQuery_data_tokenUsage ==
  Field("tokenUsage", TRUE, FALSE, "object", <<
    Field("completion", FALSE, FALSE, "number", <<>>),
    Field("prompt", FALSE, FALSE, "number", <<>>),
    Field("total", FALSE, FALSE, "number", <<>>)
  >>)

\* src/unnamed/part_000 lines 16-62: the declared type of the data read through the fragment
SessionDetailsQuery_data ==
  <<
    Field("session", FALSE, FALSE, "object", <<
      Field("latencyP50", TRUE, TRUE, "number", <<>>),
      Field("numTraces", TRUE, FALSE, "number", <<>>),
      Field("sessionId", TRUE, FALSE, "string", <<>>),
      SessionDetailsQuery_data_tokenUsage,
      Field("traces", TRUE, FALSE, "object", <<
        Field("edges", FALSE, FALSE, "array", <<
          Field("trace", FALSE, FALSE, "object", <<
            Field("rootSpan", FALSE, TRUE, "object", <<
              Field("attributes", FALSE, FALSE, "string", <<>>),
              Field("context", FALSE, FALSE, "object", <<
                Field("spanId", FALSE, FALSE, "string", <<>>),
                Field("traceId", FALSE, FALSE, "string", <<>>)
              >>),
              Field("cumulativeTokenCountCompletion", FALSE, TRUE, "number", <<>>),
              Field("cumulativeTokenCountPrompt", FALSE, TRUE, "number", <<>>),
              Field("cumulativeTokenCountTotal", FALSE, TRUE, "number", <<>>),
              Field("id", FALSE, FALSE, "string", <<>>),
              Field("input", FALSE, TRUE, "object", <<
                Field("value", FALSE, FALSE, "string", <<>>)
              >>),
              Field("latencyMs", FALSE, TRUE, "number", <<>>),
              Field("output", FALSE, TRUE, "object", <<
                Field("value", FALSE, FALSE, "string", <<>>)
              >>),
              Field("project", FALSE, FALSE, "object", <<
                Field("id", FALSE, FALSE, "string", <<>>)
              >>),
              Field("spanAnnotations", FALSE, FALSE, "array", <<
                Field("annotatorKind", FALSE, FALSE, "AnnotatorKind", <<>>),
                Field("explanation", FALSE, TRUE, "string", <<>>),
                Field("label", FALSE, TRUE, "string", <<>>),
                Field("name", FALSE, FALSE, "string", <<>>),
                Field("score", FALSE, TRUE, "number", <<>>)
              >>),
              Field("startTime", FALSE, FALSE, "string", <<>>)
            >>)
          >>)
        >>)
      >>)
    >>)
  >>

SessionDetailsQuery_variables ==
  << [name |-> "id", type |-> "string"] >>

AnnotatorKind ==
  {"HUMAN", "LLM"}

\* Record<PropertyKey, never>: no variables
ViewerContextRefetchQuery_variables ==
  <<>>

-----------------------------------------------------------------------------
(* Evaluation of a generated module *)

Modules == {"SessionDetailsQuery", "ViewerContextRefetchQuery"}

\* the vars of the module function of m, in declaration order
VarOrder(m) ==
  IF m = "SessionDetailsQuery" THEN SessionDetailsQuery_vars
  ELSE ViewerContextRefetchQuery_vars

VarNames(m) == {VarOrder(m)[i] : i \in DOMAIN VarOrder(m)}

\* the initialiser of var v of module m
VarInit(m, v) ==
  IF m = "SessionDetailsQuery"
  THEN CASE v = "v0" -> SessionDetailsQuery_v0
         [] v = "v1" -> SessionDetailsQuery_v1
         [] v = "v2" -> SessionDetailsQuery_v2
         [] v = "v3" -> SessionDetailsQuery_v3
         [] v = "v4" -> SessionDetailsQuery_v4
  ELSE CASE v = "v0" -> ViewerContextRefetchQuery_v0
         [] v = "v1" -> ViewerContextRefetchQuery_v1

\* the object literal the module function returns
ReturnExpr(m) ==
  IF m = "SessionDetailsQuery"
  THEN [fragment |-> SessionDetailsQuery_fragment,
        operation |-> SessionDetailsQuery_operation,
        params |-> SessionDetailsQuery_params]
  ELSE [fragment |-> ViewerContextRefetchQuery_fragment,
        operation |-> ViewerContextRefetchQuery_operation,
        params |-> ViewerContextRefetchQuery_params]

HashOf(m) ==
  IF m = "SessionDetailsQuery" THEN SessionDetailsQuery_hash
  ELSE ViewerContextRefetchQuery_hash

\* JavaScript evaluation of an object literal: a use of a var yields the
\* value the var holds at that moment (undefined before its initialiser ran)
RECURSIVE EvalNode(_, _), EvalList(_, _)
EvalList(l, e) ==
  IF l.ref # Null
  THEN IF e[l.ref].defined THEN e[l.ref].val ELSE <<Undefined>>
  ELSE [i \in DOMAIN l.items |-> EvalNode(l.items[i], e)]
EvalNode(x, e) ==
  IF x.kind = "Ref"
  THEN IF e[x.name].defined THEN e[x.name].val[1] ELSE Undefined
  ELSE [x EXCEPT !.args = EvalList(x.args, e),
                 !.selections = EvalList(x.selections, e),
                 !.argumentDefinitions = EvalList(x.argumentDefinitions, e)]

\* `const node` before the module function has returned
Uninitialized ==
  [kind |-> "uninitialized", fragment |-> Undefined, operation |-> Undefined,
   params |-> [cacheID |-> Null, id |-> Null, metadata |-> Null,
               name |-> Null, operationKind |-> Null, text |-> <<>>],
   hash |-> Null]

NumStatements(m) == Len(VarOrder(m)) + 3

\* one initialiser of the var statement
EvalVar(m) ==
  /\ pc[m] \in DOMAIN VarOrder(m)
  /\ LET v == VarOrder(m)[pc[m]] IN
       env' = [env EXCEPT ![m][v] =
                 [defined |-> TRUE, val |-> EvalList(VarInit(m, v), env[m])]]
  /\ pc' = [pc EXCEPT ![m] = @ + 1]
  /\ UNCHANGED <<node, exported, obs, requests>>
  /\ UNCHANGED <<scanVars, respVars, buildVars>>

\* return { fragment, kind, operation, params }
EvalReturn(m) ==
  /\ pc[m] = Len(VarOrder(m)) + 1
  /\ node' = [node EXCEPT ![m] =
       [kind |-> "Request",
        fragment |-> EvalNode(ReturnExpr(m).fragment, env[m]),
        operation |-> EvalNode(ReturnExpr(m).operation, env[m]),
        params |-> ReturnExpr(m).params,
        hash |-> Null]]
  /\ pc' = [pc EXCEPT ![m] = @ + 1]
  /\ UNCHANGED <<env, exported, obs, requests>>
  /\ UNCHANGED <<scanVars, respVars, buildVars>>

\* (node as any).hash = "..."
AttachHash(m) ==
  /\ pc[m] = Len(VarOrder(m)) + 2
  /\ node' = [node EXCEPT ![m].hash = HashOf(m)]
  /\ pc' = [pc EXCEPT ![m] = @ + 1]
  /\ UNCHANGED <<env, exported, obs, requests>>
  /\ UNCHANGED <<scanVars, respVars, buildVars>>

\* a mutant of ExportDefault: the binding is handed out before the hash is
\* attached
ExportBeforeHash(m) ==
  /\ pc[m] = Len(VarOrder(m)) + 2
  /\ ~exported[m]
  /\ exported' = [exported EXCEPT ![m] = TRUE]
  /\ UNCHANGED <<pc, env, node, obs, requests>>
  /\ UNCHANGED <<scanVars, respVars, buildVars>>

\* export default node
ExportDefault(m) ==
  /\ pc[m] = NumStatements(m)
  /\ exported' = [exported EXCEPT ![m] = TRUE]
  /\ pc' = [pc EXCEPT ![m] = @ + 1]
  /\ UNCHANGED <<env, node, obs, requests>>
  /\ UNCHANGED <<scanVars, respVars, buildVars>>

Readers == 1 .. NumReaders

\* an importer reads the default export of m
Read(r, m) ==
  /\ exported[m]
  /\ ~obs[r][m].seen
  /\ obs' = [obs EXCEPT ![r][m] = [seen |-> TRUE, val |-> node[m]]]
  /\ UNCHANGED <<pc, env, node, exported, requests>>
  /\ UNCHANGED <<scanVars, respVars, buildVars>>

VariableValues == 1 .. NumVariableValues

\* the $variables type of the module
VariablesType(m) ==
  IF m = "SessionDetailsQuery" THEN SessionDetailsQuery_variables
  ELSE ViewerContextRefetchQuery_variables

\* the variables object of a request: every key of the $variables type with
\* the caller's value
VariablesOf(m, x) ==
  {[name |-> VariablesType(m)[i].name, value |-> x] :
     i \in DOMAIN VariablesType(m)}

\* the execution engine issues a request from an exported binding: it sends
\* the cache identity and the text with the caller's variables
IssueRequest(m, x) ==
  /\ exported[m]
  /\ Cardinality(requests) < MaxRequests
  /\ LET r == [name |-> node[m].params.name,
               cacheID |-> node[m].params.cacheID,
               text |-> node[m].params.text,
               variables |-> VariablesOf(m, x)]
     IN /\ r \notin requests
        /\ requests' = requests \cup {r}
  /\ UNCHANGED <<pc, env, node, exported, obs>>
  /\ UNCHANGED <<scanVars, respVars, buildVars>>

InitModules ==
  /\ pc = [m \in Modules |-> 1]
  /\ env = [m \in Modules |->
              [v \in VarNames(m) |-> [defined |-> FALSE, val |-> <<>>]]]
  /\ node = [m \in Modules |-> Uninitialized]
  /\ exported = [m \in Modules |-> FALSE]
  /\ obs = [r \in Readers |->
              [m \in Modules |-> [seen |-> FALSE, val |-> Uninitialized]]]
  /\ requests = {}

\* the value of `const node` once the module has been evaluated
RECURSIVE EvalVars(_, _, _)
EvalVars(m, k, e) ==
  IF k > Len(VarOrder(m)) THEN e
  ELSE LET v == VarOrder(m)[k] IN
         EvalVars(m, k + 1,
           [e EXCEPT ![v] = [defined |-> TRUE,
                             val |-> EvalList(VarInit(m, v), e)]])

ModuleValue(m) ==
  LET e == EvalVars(m, 1, [v \in VarNames(m) |-> [defined |-> FALSE, val |-> <<>>]])
  IN [kind |-> "Request",
      fragment |-> EvalNode(ReturnExpr(m).fragment, e),
      operation |-> EvalNode(ReturnExpr(m).operation, e),
      params |-> ReturnExpr(m).params,
      hash |-> HashOf(m)]

\* the modules already evaluated and exported (the state the scan, the
\* response processing and the build start from)
ModulesLoaded ==
  /\ pc = [m \in Modules |-> NumStatements(m) + 1]
  /\ env = [m \in Modules |-> EvalVars(m, 1,
              [v \in VarNames(m) |-> [defined |-> FALSE, val |-> <<>>]])]
  /\ node = [m \in Modules |-> ModuleValue(m)]
  /\ exported = [m \in Modules |-> TRUE]
  /\ obs = [r \in Readers |->
              [m \in Modules |-> [seen |-> FALSE, val |-> Uninitialized]]]
  /\ requests = {}

-----------------------------------------------------------------------------
(* The scan of params.text *)

\* GraphQL punctuators
Punctuators ==
  {"!", "$", "(", ")", "...", ":", "=", "@", "[", "]", "{", "|", "}"}

\* the frame of a selection set that adds no response key to the path: the
\* root of a definition, or an inline fragment
NoKey == ""

Text == node[scanMod].params.text

Tok(i) == IF i \in DOMAIN Text THEN Text[i] ELSE NoKey

ScanDone == pos > Len(Text)

\* the response keys of the enclosing fields
CurPath == SelectSeq(stack, LAMBDA k : k # NoKey)

\* query Name [ "(" ]
ScanOperation ==
  /\ ~ScanDone
  /\ ctx = "document"
  /\ Tok(pos) = "query"
  /\ def' = Tok(pos + 1)
  /\ lastKey' = NoKey
  /\ IF Tok(pos + 2) = "("
     THEN pos' = pos + 3 /\ ctx' = "variableDefinitions"
     ELSE pos' = pos + 2 /\ ctx' = "selectionSet"
  /\ UNCHANGED <<scanMod, stack, paths, spreads, declared, bound>>
  /\ UNCHANGED <<modVars, respVars, buildVars>>

\* fragment Name on Type
ScanFragmentDefinition ==
  /\ ~ScanDone
  /\ ctx = "document"
  /\ Tok(pos) = "fragment"
  /\ Tok(pos + 2) = "on"
  /\ def' = Tok(pos + 1)
  /\ lastKey' = NoKey
  /\ pos' = pos + 4
  /\ ctx' = "selectionSet"
  /\ UNCHANGED <<scanMod, stack, paths, spreads, declared, bound>>
  /\ UNCHANGED <<modVars, respVars, buildVars>>

\* $name : Type [ "!" ]
ScanVariableDefinition ==
  /\ ~ScanDone
  /\ ctx = "variableDefinitions"
  /\ Tok(pos) = "$"
  /\ Tok(pos + 2) = ":"
  /\ declared' = Append(declared, Tok(pos + 1))
  /\ pos' = IF Tok(pos + 4) = "!" THEN pos + 5 ELSE pos + 4
  /\ UNCHANGED <<scanMod, ctx, def, stack, lastKey, paths, spreads, bound>>
  /\ UNCHANGED <<modVars, respVars, buildVars>>

\* ")" closing the variable definitions
ScanEndVariableDefinitions ==
  /\ ~ScanDone
  /\ ctx = "variableDefinitions"
  /\ Tok(pos) = ")"
  /\ ctx' = "selectionSet"
  /\ pos' = pos + 1
  /\ UNCHANGED <<scanMod, def, stack, lastKey, paths, spreads, declared, bound>>
  /\ UNCHANGED <<modVars, respVars, buildVars>>

\* "{" opens the selection set of the last field, of an inline fragment or
\* of the definition
ScanOpenBrace ==
  /\ ~ScanDone
  /\ ctx = "selectionSet"
  /\ Tok(pos) = "{"
  /\ stack' = Append(stack, lastKey)
  /\ lastKey' = NoKey
  /\ pos' = pos + 1
  /\ UNCHANGED <<scanMod, ctx, def, paths, spreads, declared, bound>>
  /\ UNCHANGED <<modVars, respVars, buildVars>>

\* "}" closes a selection set; the outermost one ends the definition
ScanCloseBrace ==
  /\ ~ScanDone
  /\ ctx = "selectionSet"
  /\ Tok(pos) = "}"
  /\ Len(stack) > 0
  /\ stack' = SubSeq(stack, 1, Len(stack) - 1)
  /\ IF Len(stack) = 1
     THEN ctx' = "document" /\ def' = NoKey
     ELSE UNCHANGED <<ctx, def>>
  /\ lastKey' = NoKey
  /\ pos' = pos + 1
  /\ UNCHANGED <<scanMod, paths, spreads, declared, bound>>
  /\ UNCHANGED <<modVars, respVars, buildVars>>

\* [ alias ":" ] name [ "(" ]: a field; its response key is the alias if
\* there is one, else the name
ScanField ==
  /\ ~ScanDone
  /\ ctx = "selectionSet"
  /\ Len(stack) > 0
  /\ Tok(pos) \notin Punctuators
  /\ LET hasAlias == Tok(pos + 1) = ":"
         key == Tok(pos)
         after == IF hasAlias THEN pos + 3 ELSE pos + 1
     IN /\ paths' = paths \cup {[def |-> def, path |-> Append(CurPath, key)]}
        /\ lastKey' = key
        /\ IF Tok(after) = "("
           THEN pos' = after + 1 /\ ctx' = "arguments"
           ELSE pos' = after /\ UNCHANGED ctx
  /\ UNCHANGED <<scanMod, def, stack, spreads, declared, bound>>
  /\ UNCHANGED <<modVars, respVars, buildVars>>

\* name ":" value: an argument of a field; "$" name is a binding site of a
\* variable, any other value is a literal
ScanArgument ==
  /\ ~ScanDone
  /\ ctx = "arguments"
  /\ Tok(pos) \notin Punctuators
  /\ Tok(pos + 1) = ":"
  /\ IF Tok(pos + 2) = "$"
     THEN bound' = Append(bound, Tok(pos + 3)) /\ pos' = pos + 4
     ELSE UNCHANGED bound /\ pos' = pos + 3
  /\ UNCHANGED <<scanMod, ctx, def, stack, lastKey, paths, spreads, declared>>
  /\ UNCHANGED <<modVars, respVars, buildVars>>

\* ")" closing the arguments of a field
ScanEndArguments ==
  /\ ~ScanDone
  /\ ctx = "arguments"
  /\ Tok(pos) = ")"
  /\ ctx' = "selectionSet"
  /\ pos' = pos + 1
  /\ UNCHANGED <<scanMod, def, stack, lastKey, paths, spreads, declared, bound>>
  /\ UNCHANGED <<modVars, respVars, buildVars>>

\* "..." on Type: an inline fragment; its fields belong to the enclosing field
ScanInlineFragment ==
  /\ ~ScanDone
  /\ ctx = "selectionSet"
  /\ Tok(pos) = "..."
  /\ Tok(pos + 1) = "on"
  /\ lastKey' = NoKey
  /\ pos' = pos + 3
  /\ UNCHANGED <<scanMod, ctx, def, stack, paths, spreads, declared, bound>>
  /\ UNCHANGED <<modVars, respVars, buildVars>>

\* "..." Name: a spread of a named fragment
ScanFragmentSpread ==
  /\ ~ScanDone
  /\ ctx = "selectionSet"
  /\ Tok(pos) = "..."
  /\ Tok(pos + 1) # "on"
  /\ spreads' = spreads \cup
       {[def |-> def, prefix |-> CurPath, name |-> Tok(pos + 1)]}
  /\ pos' = pos + 2
  /\ UNCHANGED <<scanMod, ctx, def, stack, lastKey, paths, declared, bound>>
  /\ UNCHANGED <<modVars, respVars, buildVars>>

ScanIdle ==
  /\ scanMod \in Modules
  /\ pos = 1
  /\ ctx = "document"
  /\ def = NoKey
  /\ stack = <<>>
  /\ lastKey = NoKey
  /\ paths = {}
  /\ spreads = {}
  /\ declared = <<>>
  /\ bound = <<>>

\* the field paths a definition of the text declares, its fragment spreads
\* expanded (fuel bounds the nesting of spreads)
RECURSIVE TextPaths(_, _)
TextPaths(d, fuel) ==
  IF fuel = 0 THEN {}
  ELSE {p.path : p \in {q \in paths : q.def = d}}
       \cup UNION {{s.prefix \o q : q \in TextPaths(s.name, fuel - 1)} :
                     s \in {t \in spreads : t.def = d}}

Definitions == {p.def : p \in paths} \cup {s.def : s \in spreads}

DeclaredPaths(d) == TextPaths(d, Cardinality(Definitions))

\* the key under which a selection appears in the response
ResponseKey(s) == IF s.alias # Null THEN s.alias ELSE s.name

\* the field paths of a selection tree; inline fragments add no key, a type
\* discriminator adds its abstract key, a fragment spread stands for the
\* fields of its definition in the text
RECURSIVE TreePaths(_, _)
TreePaths(sels, prefix) ==
  UNION {LET s == sels[i] IN
           CASE s.kind = "ScalarField" -> {Append(prefix, ResponseKey(s))}
             [] s.kind = "LinkedField" ->
                  {Append(prefix, ResponseKey(s))}
                  \cup TreePaths(s.selections, Append(prefix, ResponseKey(s)))
             [] s.kind = "InlineFragment" -> TreePaths(s.selections, prefix)
             [] s.kind = "TypeDiscriminator" -> {Append(prefix, s.abstractKey)}
             [] s.kind = "FragmentSpread" ->
                  {prefix \o q : q \in DeclaredPaths(s.name)}
             [] OTHER -> {Append(prefix, s.kind)}
         : i \in DOMAIN sels}

\* every descriptor object of a selection tree
RECURSIVE TreeNodes(_)
TreeNodes(sels) ==
  UNION {{sels[i]} \cup TreeNodes(sels[i].selections) : i \in DOMAIN sels}

\* the names of the variables a descriptor declares
ArgumentNames(d) ==
  {d.argumentDefinitions[i].name : i \in DOMAIN d.argumentDefinitions}

\* the keys of the $variables type of the module
VariableKeys(m) == {VariablesType(m)[i].name : i \in DOMAIN VariablesType(m)}

\* how often a variable is bound in the text
BindingSites(v) == Cardinality({i \in DOMAIN bound : bound[i] = v})

-----------------------------------------------------------------------------
(* Processing of a response of SessionDetailsQuery *)

\* JSON values
JNull == [t |-> "null", s |-> "", o |-> <<>>, a |-> <<>>]
JNum == [t |-> "number", s |-> "", o |-> <<>>, a |-> <<>>]
JStr(s) == [t |-> "string", s |-> s, o |-> <<>>, a |-> <<>>]
JObj(o) == [t |-> "object", s |-> "", o |-> o, a |-> <<>>]
JArr(a) == [t |-> "array", s |-> "", o |-> <<>>, a |-> a]

Has(obj, k) == k \in DOMAIN obj.o

\* concrete types a node(id:) lookup may report: ProjectSession and two of
\* the other types the descriptors name
TypeNames == {"ProjectSession", "Project", "Span"}

\* what a payload may carry for session.tokenUsage.total / .completion
TotalShapes == {"absent", "number", "string", "null"}
CompletionShapes == {"absent", "number"}

Shaped(k, shape) ==
  CASE shape = "absent" -> <<>>
    [] shape = "number" -> k :> JNum
    [] shape = "string" -> k :> JStr("12")
    [] shape = "null" -> k :> JNull

TokenUsageObject(total, completion) ==
  JObj(Shaped("total", total) @@ Shaped("completion", completion)
       @@ ("prompt" :> JNum))

\* the payloads the server may send for the query: the type name, the node
\* id, and any of the fields of the ProjectSession branch, well formed or not
Responses ==
  {JObj("session" :> JObj(
       ("__typename" :> JStr(tn)) @@ ("__isNode" :> JStr(tn))
       @@ ("id" :> JStr("node-id"))
       @@ (IF nt THEN "numTraces" :> JNum ELSE <<>>)
       @@ (IF sid THEN "sessionId" :> JStr("session-id") ELSE <<>>)
       @@ (IF tu = <<"none", "none">> THEN <<>>
           ELSE "tokenUsage" :> TokenUsageObject(tu[1], tu[2])))) :
     tn \in TypeNames, nt \in BOOLEAN, sid \in BOOLEAN,
     tu \in {<<"none", "none">>} \cup (TotalShapes \X CompletionShapes)}

\* structural conformance of a JSON value to a declared type; properties
\* the type does not declare are ignored
RECURSIVE ConformsObject(_, _), ConformsValue(_, _)
ConformsObject(obj, fields) ==
  \A i \in DOMAIN fields :
    IF Has(obj, fields[i].name)
    THEN ConformsValue(obj.o[fields[i].name], fields[i])
    ELSE fields[i].optional
ConformsValue(v, f) ==
  IF v.t = "null" THEN f.nullable
  ELSE CASE f.t = "number" -> v.t = "number"
         [] f.t = "string" -> v.t = "string"
         [] f.t = "AnnotatorKind" -> v.t = "string" /\ v.s \in AnnotatorKind
         [] f.t = "object" -> v.t = "object" /\ ConformsObject(v, f.fields)
         [] f.t = "array" ->
              /\ v.t = "array"
              /\ \A j \in DOMAIN v.a :
                   v.a[j].t = "object" /\ ConformsObject(v.a[j], f.fields)

\* shape validation of a payload of SessionDetailsQuery
Validate(r) ==
  IF ConformsObject(r, SessionDetailsQuery_data) THEN "accepted" ELSE "rejected"

\* reading a record through a selection list: the view it yields and
\* whether a selected field was missing from the record
RECURSIVE ReadSelections(_, _, _), ReadSelection(_, _)
ReadSelections(sels, i, obj) ==
  IF i > Len(sels) THEN [o |-> <<>>, missing |-> FALSE]
  ELSE LET cur == ReadSelection(sels[i], obj)
           rest == ReadSelections(sels, i + 1, obj)
       IN [o |-> cur.o @@ rest.o, missing |-> cur.missing \/ rest.missing]
ReadSelection(s, obj) ==
  CASE s.kind = "ScalarField" ->
         IF Has(obj, ResponseKey(s))
         THEN [o |-> ResponseKey(s) :> obj.o[ResponseKey(s)], missing |-> FALSE]
         ELSE [o |-> <<>>, missing |-> TRUE]
    [] s.kind = "LinkedField" ->
         IF ~Has(obj, ResponseKey(s)) THEN [o |-> <<>>, missing |-> TRUE]
         ELSE LET v == obj.o[ResponseKey(s)] IN
           CASE v.t = "object" /\ ~s.plural ->
                  LET sub == ReadSelections(s.selections, 1, v)
                  IN [o |-> ResponseKey(s) :> JObj(sub.o), missing |-> sub.missing]
             [] v.t = "array" /\ s.plural ->
                  [o |-> ResponseKey(s) :>
                           JArr([j \in DOMAIN v.a |->
                                   JObj(ReadSelections(s.selections, 1, v.a[j]).o)]),
                   missing |-> \E j \in DOMAIN v.a :
                                 ReadSelections(s.selections, 1, v.a[j]).missing]
             [] OTHER -> [o |-> ResponseKey(s) :> v, missing |-> FALSE]
    [] s.kind = "InlineFragment" ->
         \* a branch on a concrete type applies when the record reports it
         IF Has(obj, "__typename") /\ obj.o["__typename"].s = s.type
         THEN ReadSelections(s.selections, 1, obj)
         ELSE [o |-> <<>>, missing |-> FALSE]
    [] OTHER -> [o |-> <<>>, missing |-> FALSE]

\* the view of a payload through the fragment tree of the binding
Project(r) ==
  ReadSelections(node["SessionDetailsQuery"].fragment.selections, 1, r)

NoView == [o |-> <<>>, missing |-> FALSE]

\* the engine validates the shape of the payload
ValidateResponse ==
  /\ verdict = "none"
  /\ verdict' = Validate(response)
  /\ phase' = IF phase = "received" THEN "validated" ELSE "done"
  /\ UNCHANGED <<response, view>>
  /\ UNCHANGED <<modVars, scanVars, buildVars>>

\* a fragment consumer reads the payload through the fragment tree
ProjectResponse ==
  /\ phase \in {"received", "validated"}
  /\ view' = Project(response)
  /\ phase' = IF phase = "received" THEN "projected" ELSE "done"
  /\ UNCHANGED <<response, verdict>>
  /\ UNCHANGED <<modVars, scanVars, buildVars>>

Projected == phase \in {"projected", "done"}

ResponseIdle ==
  /\ response \in Responses
  /\ phase = "received"
  /\ verdict = "none"
  /\ view = NoView

-----------------------------------------------------------------------------
(* backend.dockerfile *)

\* where a symbolic link under ./src points: to a file under ./src (copied
\* with it), to the static directory the frontend bundle is written to, or
\* to a place of the working tree that is not copied into the image
LinkTargets == {"src", "static", "outside"}

Links == LinkTargets \X (1 .. MaxLinks)

\* the instructions of the two stages, by their line in the file
FrontendBuilder == <<2, 3, 4, 5, 6, 7, 8, 9>>
BackendBuilder == <<12, 13, 14, 15, 16, 17, 18, 19, 21, 22, 23>>

\* the next instruction of a stage is the one at this line
Next1(line) == pc1 < Len(FrontendBuilder) /\ FrontendBuilder[pc1 + 1] = line
Next2(line) == pc2 < Len(BackendBuilder) /\ BackendBuilder[pc2 + 1] = line

FrontendBuilt == pc1 = Len(FrontendBuilder)

\* FROM node:20-slim AS frontend-builder
FrontendFrom ==
  /\ Next1(2)
  /\ fs1' = [fs1 EXCEPT !.base = "node:20-slim"]
  /\ pc1' = pc1 + 1
  /\ UNCHANGED <<context, pc2, fs2>>
  /\ UNCHANGED <<modVars, scanVars, respVars>>

\* ENV PNPM_HOME="/pnpm"
FrontendEnvPnpmHome ==
  /\ Next1(3)
  /\ fs1' = [fs1 EXCEPT !.envVars = @ \cup {"PNPM_HOME"}]
  /\ pc1' = pc1 + 1
  /\ UNCHANGED <<context, pc2, fs2>>
  /\ UNCHANGED <<modVars, scanVars, respVars>>

\* ENV PATH="$PNPM_HOME:$PATH"
FrontendEnvPath ==
  /\ Next1(4)
  /\ fs1' = [fs1 EXCEPT !.envVars = @ \cup {"PATH"}]
  /\ pc1' = pc1 + 1
  /\ UNCHANGED <<context, pc2, fs2>>
  /\ UNCHANGED <<modVars, scanVars, respVars>>

\* RUN corepack enable
FrontendCorepack ==
  /\ Next1(5)
  /\ fs1' = [fs1 EXCEPT !.corepack = TRUE]
  /\ pc1' = pc1 + 1
  /\ UNCHANGED <<context, pc2, fs2>>
  /\ UNCHANGED <<modVars, scanVars, respVars>>

\* WORKDIR /phoenix/app/
FrontendWorkdir ==
  /\ Next1(6)
  /\ fs1' = [fs1 EXCEPT !.workdir = "/phoenix/app/"]
  /\ pc1' = pc1 + 1
  /\ UNCHANGED <<context, pc2, fs2>>
  /\ UNCHANGED <<modVars, scanVars, respVars>>

\* COPY ./app /phoenix/app
FrontendCopyApp ==
  /\ Next1(7)
  /\ fs1' = [fs1 EXCEPT !.app = TRUE]
  /\ pc1' = pc1 + 1
  /\ UNCHANGED <<context, pc2, fs2>>
  /\ UNCHANGED <<modVars, scanVars, respVars>>

\* RUN pnpm install
FrontendInstall ==
  /\ Next1(8)
  /\ fs1' = [fs1 EXCEPT !.nodeModules = fs1.app /\ fs1.corepack]
  /\ pc1' = pc1 + 1
  /\ UNCHANGED <<context, pc2, fs2>>
  /\ UNCHANGED <<modVars, scanVars, respVars>>

\* RUN pnpm run build: writes the bundle to /phoenix/src/phoenix/server/static/
FrontendBuild ==
  /\ Next1(9)
  /\ fs1' = [fs1 EXCEPT !.static = fs1.app /\ fs1.nodeModules]
  /\ pc1' = pc1 + 1
  /\ UNCHANGED <<context, pc2, fs2>>
  /\ UNCHANGED <<modVars, scanVars, respVars>>

\* FROM python:3.11-bullseye AS backend-builder
BackendFrom ==
  /\ Next2(12)
  /\ fs2' = [fs2 EXCEPT !.base = "python:3.11-bullseye"]
  /\ pc2' = pc2 + 1
  /\ UNCHANGED <<context, pc1, fs1>>
  /\ UNCHANGED <<modVars, scanVars, respVars>>

\* WORKDIR /phoenix
BackendWorkdir ==
  /\ Next2(13)
  /\ fs2' = [fs2 EXCEPT !.workdir = "/phoenix"]
  /\ pc2' = pc2 + 1
  /\ UNCHANGED <<context, pc1, fs1>>
  /\ UNCHANGED <<modVars, scanVars, respVars>>

\* COPY ./src /phoenix/src: symbolic links are copied as links
BackendCopySrc ==
  /\ Next2(14)
  /\ fs2' = [fs2 EXCEPT !.files = @ \cup {"src"}, !.links = context]
  /\ pc2' = pc2 + 1
  /\ UNCHANGED <<context, pc1, fs1>>
  /\ UNCHANGED <<modVars, scanVars, respVars>>

\* COPY ./pyproject.toml /phoenix/
BackendCopyPyproject ==
  /\ Next2(15)
  /\ fs2' = [fs2 EXCEPT !.files = @ \cup {"pyproject.toml"}]
  /\ pc2' = pc2 + 1
  /\ UNCHANGED <<context, pc1, fs1>>
  /\ UNCHANGED <<modVars, scanVars, respVars>>

\* COPY ./LICENSE /phoenix/
BackendCopyLicense ==
  /\ Next2(16)
  /\ fs2' = [fs2 EXCEPT !.files = @ \cup {"LICENSE"}]
  /\ pc2' = pc2 + 1
  /\ UNCHANGED <<context, pc1, fs1>>
  /\ UNCHANGED <<modVars, scanVars, respVars>>

\* COPY ./IP_NOTICE /phoenix/
BackendCopyIpNotice ==
  /\ Next2(17)
  /\ fs2' = [fs2 EXCEPT !.files = @ \cup {"IP_NOTICE"}]
  /\ pc2' = pc2 + 1
  /\ UNCHANGED <<context, pc1, fs1>>
  /\ UNCHANGED <<modVars, scanVars, respVars>>

\* COPY ./README.md /phoenix/
BackendCopyReadme ==
  /\ Next2(18)
  /\ fs2' = [fs2 EXCEPT !.files = @ \cup {"README.md"}]
  /\ pc2' = pc2 + 1
  /\ UNCHANGED <<context, pc1, fs1>>
  /\ UNCHANGED <<modVars, scanVars, respVars>>

\* a mutant of BackendCopyStatic: the copy does not wait for the stage it
\* copies from
BackendCopyStaticUnordered ==
  /\ Next2(19)
  /\ fs2' = [fs2 EXCEPT !.static = fs1.static]
  /\ pc2' = pc2 + 1
  /\ UNCHANGED <<context, pc1, fs1>>
  /\ UNCHANGED <<modVars, scanVars, respVars>>

\* COPY --from=frontend-builder /phoenix/src/phoenix/server/static/ ...:
\* the one instruction that depends on the other stage, which must be built
BackendCopyStatic ==
  /\ Next2(19)
  /\ FrontendBuilt
  /\ fs2' = [fs2 EXCEPT !.static = fs1.static]
  /\ pc2' = pc2 + 1
  /\ UNCHANGED <<context, pc1, fs1>>
  /\ UNCHANGED <<modVars, scanVars, respVars>>

\* whether the target of a symbolic link exists in the backend stage
Resolves(l, fs) ==
  CASE l[1] = "src" -> "src" \in fs.files
    [] l[1] = "static" -> fs.static
    [] l[1] = "outside" -> FALSE

\* RUN find src/ -xtype l -delete: -xtype l matches the symbolic links whose
\* target does not exist; those are deleted
BackendDeleteLinks ==
  /\ Next2(21)
  /\ fs2' = [fs2 EXCEPT !.links = {l \in @ : Resolves(l, fs2)}]
  /\ pc2' = pc2 + 1
  /\ UNCHANGED <<context, pc1, fs1>>
  /\ UNCHANGED <<modVars, scanVars, respVars>>

\* RUN pip install --target ./env ".[container, pg]": packages what is under
\* src/ at this moment
BackendInstall ==
  /\ Next2(22)
  /\ fs2' = [fs2 EXCEPT !.installed = TRUE, !.packagedLinks = fs2.links]
  /\ pc2' = pc2 + 1
  /\ UNCHANGED <<context, pc1, fs1>>
  /\ UNCHANGED <<modVars, scanVars, respVars>>

\* CMD ["bash"]
BackendCmd ==
  /\ Next2(23)
  /\ fs2' = [fs2 EXCEPT !.cmd = "bash"]
  /\ pc2' = pc2 + 1
  /\ UNCHANGED <<context, pc1, fs1>>
  /\ UNCHANGED <<modVars, scanVars, respVars>>

EmptyStage1 ==
  [base |-> Null, envVars |-> {}, corepack |-> FALSE, workdir |-> "/",
   app |-> FALSE, nodeModules |-> FALSE, static |-> FALSE]

EmptyStage2 ==
  [base |-> Null, workdir |-> "/", files |-> {}, static |-> FALSE,
   links |-> {}, installed |-> FALSE, packagedLinks |-> {}, cmd |-> Null]

BuildIdle ==
  /\ pc1 = 0
  /\ pc2 = 0
  /\ fs1 = EmptyStage1
  /\ fs2 = EmptyStage2

-----------------------------------------------------------------------------
(* The specifications *)

ScanParked ==
  /\ ScanIdle
  /\ scanMod = "SessionDetailsQuery"

ResponseParked ==
  /\ response = JNull
  /\ phase = "idle"
  /\ verdict = "none"
  /\ view = NoView

BuildParked ==
  /\ context = {}
  /\ BuildIdle

\* evaluation of the generated modules, their importers and their requests
Init ==
  /\ InitModules
  /\ ScanParked
  /\ ResponseParked
  /\ BuildParked

Next ==
  \/ \E m \in Modules : EvalVar(m)
  \/ \E m \in Modules : EvalReturn(m)
  \/ \E m \in Modules : AttachHash(m)
  \/ \E m \in Modules : ExportDefault(m)
  \/ \E r \in Readers, m \in Modules : Read(r, m)
  \/ \E m \in Modules, x \in VariableValues : IssueRequest(m, x)

Spec == Init /\ [][Next]_vars

\* the scan of the query text of either binding
InitScan ==
  /\ ModulesLoaded
  /\ ScanIdle
  /\ ResponseParked
  /\ BuildParked

NextScan ==
  \/ ScanOperation
  \/ ScanFragmentDefinition
  \/ ScanVariableDefinition
  \/ ScanEndVariableDefinitions
  \/ ScanOpenBrace
  \/ ScanCloseBrace
  \/ ScanField
  \/ ScanArgument
  \/ ScanEndArguments
  \/ ScanInlineFragment
  \/ ScanFragmentSpread

SpecScan == InitScan /\ [][NextScan]_vars

\* the processing of one response of SessionDetailsQuery
InitResponse ==
  /\ ModulesLoaded
  /\ ScanParked
  /\ ResponseIdle
  /\ BuildParked

NextResponse ==
  \/ ValidateResponse
  \/ ProjectResponse

SpecResponse == InitResponse /\ [][NextResponse]_vars

\* the container build: the instructions of a stage run in order; the
\* stages are independent but for COPY --from
InitBuild ==
  /\ ModulesLoaded
  /\ ScanParked
  /\ ResponseParked
  /\ context \in SUBSET Links
  /\ BuildIdle

NextBuild ==
  \/ FrontendFrom
  \/ FrontendEnvPnpmHome
  \/ FrontendEnvPath
  \/ FrontendCorepack
  \/ FrontendWorkdir
  \/ FrontendCopyApp
  \/ FrontendInstall
  \/ FrontendBuild
  \/ BackendFrom
  \/ BackendWorkdir
  \/ BackendCopySrc
  \/ BackendCopyPyproject
  \/ BackendCopyLicense
  \/ BackendCopyIpNotice
  \/ BackendCopyReadme
  \/ BackendCopyStatic
  \/ BackendDeleteLinks
  \/ BackendInstall
  \/ BackendCmd

SpecBuild == InitBuild /\ [][NextBuild]_vars

-----------------------------------------------------------------------------
(* Field paths of the text and of the operation tree (C1) *)

OperationPaths == TreePaths(node[scanMod].operation.selections, <<>>)

\* C1: for each binding, the field paths of the operation selection tree
\* (response key = alias if present, else name; inline fragments and type
\* discriminators followed) are exactly the field paths params.text declares
\* with its named fragments expanded.
C1_FieldPathsBijection ==
  ScanDone =>
    /\ \A p \in OperationPaths : p \in DeclaredPaths(scanMod)
    /\ \A p \in DeclaredPaths(scanMod) : p \in OperationPaths

C1_Witness ==
  /\ ScanDone
  /\ scanMod = "SessionDetailsQuery"
  /\ <<"session", "traces", "edges", "trace", "rootSpan", "input", "value">>
       \in DeclaredPaths(scanMod)
  /\ <<"session", "__isNode">> \in OperationPaths

-----------------------------------------------------------------------------
(* Declared variables and binding sites (C2) *)

DeclaredVariables ==
  ArgumentNames(node[scanMod].operation)
  \cup ArgumentNames(node[scanMod].fragment)
  \cup VariableKeys(scanMod)

\* C2: every variable the Request Descriptor declares (argumentDefinitions
\* and the $variables type) is bound exactly once in the query text, and
\* every variable bound in the text is declared; SessionDetailsQuery declares
\* and binds id once, ViewerContextRefetchQuery declares and binds nothing.
C2_VariablesBoundOnce ==
  ScanDone =>
    /\ \A v \in DeclaredVariables : BindingSites(v) = 1
    /\ \A i \in DOMAIN bound :
         /\ bound[i] \in ArgumentNames(node[scanMod].operation)
         /\ bound[i] \in VariableKeys(scanMod)
    /\ scanMod = "SessionDetailsQuery" =>
         DeclaredVariables = {"id"} /\ bound = <<"id">>
    /\ scanMod = "ViewerContextRefetchQuery" =>
         DeclaredVariables = {} /\ bound = <<>>

C2_Witness ==
  /\ ScanDone
  /\ scanMod = "SessionDetailsQuery"
  /\ declared = <<"id">>
  /\ BindingSites("id") = 1

-----------------------------------------------------------------------------
(* The two selection trees (C8) *)

FragmentPaths == TreePaths(node[scanMod].fragment.selections, <<>>)

IsTypename(s) ==
  s.kind = "ScalarField" /\ s.name = "__typename" /\ s.alias = Null

\* the linked fields of the operation tree whose concrete type is not known
AbstractLinkedFields ==
  {s \in TreeNodes(node[scanMod].operation.selections) :
     s.kind = "LinkedField" /\ s.concreteType = Null}

\* C8: each binding exposes a fragment tree and an operation tree; every
\* field visible through the fragment tree (spreads expanded) is at the same
\* path in the operation tree; the operation tree selects __typename on every
\* linked field whose concrete type is null; the fragment tree holds no such
\* metadata field.
C8_OperationTreeIsFullShape ==
  ScanDone =>
    /\ node[scanMod].fragment.kind = "Fragment"
    /\ node[scanMod].operation.kind = "Operation"
    /\ FragmentPaths \subseteq OperationPaths
    /\ \A f \in AbstractLinkedFields :
         \E i \in DOMAIN f.selections : IsTypename(f.selections[i])
    /\ \A s \in TreeNodes(node[scanMod].fragment.selections) :
         ~IsTypename(s) /\ s.kind # "TypeDiscriminator"
    /\ \A p \in FragmentPaths : p[Len(p)] # "__typename"

C8_Witness ==
  /\ ScanDone
  /\ scanMod = "SessionDetailsQuery"
  /\ AbstractLinkedFields # {}
  /\ <<"session", "numTraces">> \in FragmentPaths
  /\ <<"session", "__typename">> \in OperationPaths \ FragmentPaths

-----------------------------------------------------------------------------
(* Cache identity (C3) *)

\* the modules whose module function has returned
Built == {m \in Modules : node[m].kind = "Request"}

-----------------------------------------------------------------------------
(* Shared selection values (C6) *)

\* the descriptor with every use of a var replaced by a copy of the var's
\* initialiser
RECURSIVE InlineNode(_, _), InlineList(_, _)
InlineList(l, m) ==
  IF l.ref # Null THEN InlineList(VarInit(m, l.ref), m)
  ELSE [i \in DOMAIN l.items |-> InlineNode(l.items[i], m)]
InlineNode(x, m) ==
  IF x.kind = "Ref" THEN InlineList(VarInit(m, x.name), m)[1]
  ELSE [x EXCEPT !.args = InlineList(x.args, m),
                 !.selections = InlineList(x.selections, m),
                 !.argumentDefinitions = InlineList(x.argumentDefinitions, m)]

Inlined(m) ==
  [fragment |-> InlineNode(ReturnExpr(m).fragment, m),
   operation |-> InlineNode(ReturnExpr(m).operation, m)]

\* a payload of each query that reaches the shared selections; with the
\* payloads of the response processing they are the responses read below
SampleSession ==
  JObj("session" :> JObj(
    ("__typename" :> JStr("ProjectSession")) @@ ("__isNode" :> JStr("ProjectSession"))
    @@ ("id" :> JStr("node-id")) @@ ("numTraces" :> JNum)
    @@ ("tokenUsage" :> TokenUsageObject("number", "number"))
    @@ ("sessionId" :> JStr("session-id")) @@ ("latencyP50" :> JNull)
    @@ ("traces" :> JObj("edges" :> JArr(<<
          JObj("trace" :> JObj("rootSpan" :> JObj(
            ("id" :> JStr("span-id")) @@ ("attributes" :> JStr("{}"))
            @@ ("project" :> JObj("id" :> JStr("project-id")))
            @@ ("input" :> JObj("value" :> JStr("in")))
            @@ ("output" :> JObj("value" :> JStr("out")))
            @@ ("cumulativeTokenCountTotal" :> JNum)
            @@ ("cumulativeTokenCountCompletion" :> JNull)
            @@ ("cumulativeTokenCountPrompt" :> JNull)
            @@ ("latencyMs" :> JNum) @@ ("startTime" :> JStr("t0"))
            @@ ("spanAnnotations" :> JArr(<<>>))
            @@ ("context" :> JObj(("traceId" :> JStr("trace-id"))
                                  @@ ("spanId" :> JStr("span-id"))))))),
          JObj("trace" :> JObj("rootSpan" :> JNull))>>)))))

SampleViewer ==
  JObj("viewer" :> JObj(
    ("id" :> JStr("user-id")) @@ ("username" :> JStr("u"))
    @@ ("email" :> JStr("e")) @@ ("profilePictureUrl" :> JNull)
    @@ ("role" :> JObj("name" :> JStr("ADMIN")))
    @@ ("apiKeys" :> JArr(<<JObj(("id" :> JStr("key-id")) @@ ("name" :> JStr("k")))>>))))

SampleResponses == Responses \cup {SampleSession, SampleViewer}

\* C6: replacing every use of a shared selection value (v0..v4, v0..v1) by
\* an inlined copy yields selection trees structurally equal to the ones the
\* module builds, with the same reading result for every response.
C6_SharedSubtreesTransparent ==
  \A m \in Built :
    LET inlined == Inlined(m) IN
      /\ node[m].fragment = inlined.fragment
      /\ node[m].operation = inlined.operation
      /\ \A r \in SampleResponses :
           /\ ReadSelections(node[m].operation.selections, 1, r)
                = ReadSelections(inlined.operation.selections, 1, r)
           /\ ReadSelections(node[m].fragment.selections, 1, r)
                = ReadSelections(inlined.fragment.selections, 1, r)

C6_Witness ==
  /\ Built = Modules
  /\ \E a, b \in TreeNodes(node["SessionDetailsQuery"].operation.selections) :
       /\ a.name = "input" /\ b.name = "output"
       /\ a.selections = env["SessionDetailsQuery"]["v3"].val
       /\ b.selections = env["SessionDetailsQuery"]["v3"].val
  /\ ~ReadSelections(node["SessionDetailsQuery"].operation.selections, 1,
                     SampleSession).missing

-----------------------------------------------------------------------------
(* Immutability once constructed (C7) *)

\* the node value is built and its hash attached
Constructed(m) == pc[m] > Len(VarOrder(m)) + 2

ReadersAgree ==
  \A m \in Modules, r1, r2 \in Readers :
    obs[r1][m].seen /\ obs[r2][m].seen => obs[r1][m].val = obs[r2][m].val

ReadersSeeBinding ==
  \A m \in Modules, r \in Readers :
    obs[r][m].seen => Constructed(m) /\ obs[r][m].val = node[m]

NeverMutated ==
  [][\A m \in Modules :
       Constructed(m) =>
         /\ node'[m] = node[m]
         /\ env'[m] = env[m]
         /\ Constructed(m)']_vars

\* C7: once a binding is constructed it is never mutated: no step of any
\* reader or request changes its text, cache identity, variable schema,
\* selection trees or shared values, and all readers observe the same value.
C7_ImmutableOnceConstructed ==
  /\ [](ReadersAgree /\ ReadersSeeBinding)
  /\ NeverMutated

C7_Witness ==
  /\ \A r \in Readers : obs[r]["SessionDetailsQuery"].seen
  /\ \E r \in Readers : obs[r]["SessionDetailsQuery"].val.hash = SessionDetailsQuery_hash
  /\ requests # {}

-----------------------------------------------------------------------------
(* The polymorphic field session (C4) *)

SessionOf(r) == r.o["session"]

TypeNameOf(r) == SessionOf(r).o["__typename"].s

\* C4: when the response reports __typename "ProjectSession" the view read
\* through the fragment exposes numTraces and the other fields of the branch
\* that the response carries; when it reports any other type name numTraces
\* is absent from the view and the reading reports no error.
C4_TypeConditionalBranch ==
  Projected =>
    /\ Has(view, "session")
    /\ TypeNameOf(response) = "ProjectSession" =>
         /\ \A k \in {"numTraces", "sessionId"} :
              Has(SessionOf(response), k) =>
                /\ Has(SessionOf(view), k)
                /\ SessionOf(view).o[k] = SessionOf(response).o[k]
         /\ Has(SessionOf(response), "tokenUsage")
              => Has(SessionOf(view), "tokenUsage")
    /\ TypeNameOf(response) # "ProjectSession" =>
         /\ ~Has(SessionOf(view), "numTraces")
         /\ ~view.missing

C4_Witness ==
  /\ Projected
  /\ TypeNameOf(response) = "Span"
  /\ Has(SessionOf(response), "numTraces")
  /\ ~Has(SessionOf(view), "numTraces")
  /\ ~view.missing

C4_WitnessProjectSession ==
  /\ Projected
  /\ TypeNameOf(response) = "ProjectSession"
  /\ Has(SessionOf(view), "numTraces")

-----------------------------------------------------------------------------
(* The non-null field session.tokenUsage.total (C5) *)

HasTokenUsage(r) ==
  Has(SessionOf(r), "tokenUsage") /\ SessionOf(r).o["tokenUsage"].t = "object"

TokenUsageOf(r) == SessionOf(r).o["tokenUsage"]

IsNumber(obj, k) == Has(obj, k) /\ obj.o[k].t = "number"

\* C5: shape validation rejects every response whose tokenUsage object omits
\* total, and accepts a response whose tokenUsage carries total as a number
\* (its other fields being well formed).
C5_TotalIsRequired ==
  (verdict # "none" /\ HasTokenUsage(response)) =>
    /\ ~Has(TokenUsageOf(response), "total") => verdict = "rejected"
    /\ ( /\ IsNumber(TokenUsageOf(response), "total")
         /\ IsNumber(TokenUsageOf(response), "completion")
         /\ IsNumber(TokenUsageOf(response), "prompt") )
         => verdict = "accepted"

C5_Witness ==
  /\ verdict = "rejected"
  /\ HasTokenUsage(response)
  /\ ~Has(TokenUsageOf(response), "total")
  /\ IsNumber(TokenUsageOf(response), "completion")

C5_WitnessAccepted ==
  /\ verdict = "accepted"
  /\ HasTokenUsage(response)
  /\ IsNumber(TokenUsageOf(response), "total")

-----------------------------------------------------------------------------
(* Order of the two stages (C9) *)

\* a step of stage backend-builder
BackendStep == pc2' # pc2

\* the line of the instruction a backend step runs
BackendLine == BackendBuilder[pc2 + 1]

\* C9 as stated: no step of stage 2 runs before stage 1's `pnpm run build`
\* has completed.
C9_NoBackendStepBeforeBundle ==
  [][BackendStep => FrontendBuilt /\ fs1.static]_vars

\* C9 as amended: the COPY --from=frontend-builder step of stage 2 and every
\* step after it run only when stage 1's `pnpm run build` has completed and
\* its bundle exists; the steps of stage 2 before that COPY do not depend on
\* stage 1.
C9_CopyFromWaitsForBundle ==
  [][(BackendStep /\ BackendLine >= 19) => FrontendBuilt /\ fs1.static]_vars

C9_Witness ==
  /\ pc2 = Len(BackendBuilder)
  /\ fs2.static
  /\ FrontendBuilt

\* stage 2 under way while stage 1 has not built the bundle
C9_BackendStartsFirst ==
  /\ pc2 > 0
  /\ ~fs1.static

-----------------------------------------------------------------------------
(* Symbolic links (C10) *)

\* C10: the symlink deletion runs after the sources and the stage-1 bundle
\* have been copied in and before the backend is installed, and when the
\* install step starts no symbolic link of the working tree remains under
\* src/.
C10_LinksStrippedBeforeInstall ==
  [][/\ (BackendStep /\ BackendLine = 21) =>
          "src" \in fs2.files /\ fs2.static /\ ~fs2.installed
     /\ (BackendStep /\ BackendLine = 22) => fs2.links = {}]_vars

\* the part of C10 that holds: the order of the steps, and no symbolic link
\* with a missing target is left when the install step starts
C10_DanglingLinksStripped ==
  [][/\ (BackendStep /\ BackendLine = 21) =>
          "src" \in fs2.files /\ fs2.static /\ ~fs2.installed
     /\ (BackendStep /\ BackendLine = 22) =>
          \A l \in fs2.links : Resolves(l, fs2)]_vars

====
